---- MODULE Spec2Model ----
(***************************************************************************)
(* Model of the two fairseq criterions of fairseq-entmax:                  *)
(*   EntmaxLossCriterion                     (criterions/entmax_loss.py)   *)
(*   FenchelYoungLabelSmoothingLossCriterion (criterions/fyls_loss.py)     *)
(*                                                                         *)
(* Numbers are exact rationals <<n, d>> (d > 0, lowest terms), so that the *)
(* divisions of _compute_smoothing and reduce_metrics are computed and not *)
(* assumed.  Floating-point rounding, overflow and NaN inputs are outside  *)
(* the model.  Tensors are sequences: a logits row is a function from the  *)
(* column index 0..V-1 to a logit, a batch is a sequence of sentences.     *)
(***************************************************************************)
EXTENDS Integers, Sequences, FiniteSets, TLC

VARIABLES
    status,     \* "unconstructed" | "constructed" | "AssertionError"
    init_args,  \* the arguments __init__ was called with (NoValue before)
    self,       \* the criterion object's fields (NoValue when there is none)
    call,       \* the last method call: [op |-> ..., ...arguments...]
    ret,        \* what that call returned
    prev,       \* the forward call before a padded re-run (NoValue otherwise)
    logged      \* the metrics.log_scalar calls of the last reduce_metrics

vars == <<status, init_args, self, call, ret, prev, logged>>

NoValue == [none |-> TRUE]

-----------------------------------------------------------------------------
(* Exact arithmetic on rationals.                                          *)

Abs(x) == IF x < 0 THEN -x ELSE x

RECURSIVE GCD(_, _)
GCD(a, b) == IF b = 0 THEN a ELSE GCD(b, a % b)

Norm(n, d) ==
    LET s == IF d < 0 THEN -1 ELSE 1
        g == GCD(Abs(n), Abs(d))
    IN  <<(s * n) \div g, (s * d) \div g>>

Rat(n) == <<n, 1>>
Zero == Rat(0)
One == Rat(1)
RAdd(a, b) == Norm(a[1] * b[2] + b[1] * a[2], a[2] * b[2])
RSub(a, b) == Norm(a[1] * b[2] - b[1] * a[2], a[2] * b[2])
RMul(a, b) == Norm(a[1] * b[1], a[2] * b[2])
\* true division by a non-zero divisor
RDiv(a, b) == Norm(a[1] * b[2], a[2] * b[1])
RLt(a, b) == a[1] * b[2] < b[1] * a[2]
RLe(a, b) == a[1] * b[2] <= b[1] * a[2]

RECURSIVE RSum(_)
RSum(s) == IF s = <<>> THEN Zero ELSE RAdd(s[1], RSum(Tail(s)))

-----------------------------------------------------------------------------
(* Construction: the functional bound to self.criterion.                   *)

\* the classes of the entmax package and torch.nn, and functools.partial
CrossEntropyLoss == [name |-> "CrossEntropyLoss", kwargs |-> <<>>]
Entmax15Loss == [name |-> "Entmax15Loss", kwargs |-> <<>>]
SparsemaxLoss == [name |-> "SparsemaxLoss", kwargs |-> <<>>]
EntmaxBisectLoss(alpha) == [name |-> "EntmaxBisectLoss", kwargs |-> <<alpha>>]

Alpha15 == <<3, 2>>
Alpha2 == <<2, 1>>

\* EntmaxLossCriterion.__init__: "assert loss_alpha > 1"
EntmaxAssertMutant(loss_alpha) == RLe(One, loss_alpha)
EntmaxAssert(loss_alpha) == RLt(One, loss_alpha)

\* EntmaxLossCriterion.__init__: the if / elif / else that binds self.criterion
EntmaxSelectMutant(loss_alpha) ==
    IF loss_alpha = Alpha15 THEN Entmax15Loss
    ELSE EntmaxBisectLoss(loss_alpha)
EntmaxSelect(loss_alpha) ==
    IF loss_alpha = Alpha15 THEN Entmax15Loss
    ELSE IF loss_alpha = Alpha2 THEN SparsemaxLoss
    ELSE EntmaxBisectLoss(loss_alpha)

\* FenchelYoungLabelSmoothingLossCriterion.__init__: "assert loss_alpha >= 1"
FylsAssert(loss_alpha) == RLe(One, loss_alpha)

\* FenchelYoungLabelSmoothingLossCriterion.__init__: two statements in a row,
\* "if loss_alpha == 1: ..." and then "if loss_alpha == 1.5: ... elif ...
\* else: ...".  The second always assigns, so it decides the binding.
FylsSelect(loss_alpha) ==
    LET first == IF loss_alpha = One THEN CrossEntropyLoss ELSE NoValue
        second == IF loss_alpha = Alpha15 THEN Entmax15Loss
                  ELSE IF loss_alpha = Alpha2 THEN SparsemaxLoss
                  ELSE EntmaxBisectLoss(loss_alpha)
    IN  second

-----------------------------------------------------------------------------
(* Tensors.                                                                *)

\* logits.size(-1): the number of columns the model's output has
VocabSize == 3
Vocab == 0 .. (VocabSize - 1)

\* x.view(-1, V) / x.view(-1): the sentences' positions, in order
RECURSIVE Flatten(_)
Flatten(t) == IF t = <<>> THEN <<>> ELSE t[1] \o Flatten(Tail(t))

\* row.sum() of one logits row
RECURSIVE SumCols(_, _)
SumCols(row, cols) ==
    IF cols = {} THEN 0
    ELSE LET j == CHOOSE c \in cols : TRUE
         IN  row[j] + SumCols(row, cols \ {j})

RowSum(row) == SumCols(row, DOMAIN row)
RowMax(row) == CHOOSE m \in {row[j] : j \in DOMAIN row} :
                   \A j \in DOMAIN row : row[j] <= m

\* a per-position tensor plus another one / a scalar plus a scalar
TAdd(reduce, a, b) ==
    IF reduce THEN RAdd(a, b)
    ELSE [i \in 1 .. Len(a) |-> RAdd(a[i], b[i])]

-----------------------------------------------------------------------------
(* The loss functional of the entmax package (or torch.nn) that            *)
(* self.criterion names.  Its numerics are outside this repository; the    *)
(* model keeps its interface: a per-position value that depends on the     *)
(* functional, the row and the target, the ignore_index mask, and the      *)
(* reduction.  RowLoss is a stand-in for the value (the margin of the best *)
(* logit over the target's, scaled by the functional's alpha).             *)

FunctionalAlpha(criterion) ==
    CASE criterion.name = "CrossEntropyLoss" -> One
      [] criterion.name = "Entmax15Loss" -> Alpha15
      [] criterion.name = "SparsemaxLoss" -> Alpha2
      [] OTHER -> criterion.kwargs[1]

RowLoss(criterion, row, t) ==
    RMul(FunctionalAlpha(criterion), Rat(RowMax(row) - row[t]))

\* criterion(ignore_index=..., reduction=...)(logits, target)
Functional(criterion, ignore_index, reduction, logits, target) ==
    LET per == [i \in 1 .. Len(target) |->
                   IF target[i] = ignore_index THEN Zero
                   ELSE RowLoss(criterion, logits[i], target[i])]
    IN  IF reduction = "sum" THEN RSum(per) ELSE per

-----------------------------------------------------------------------------
(* FenchelYoungLabelSmoothingLossCriterion._compute_smoothing              *)

\* z_bar of one row
ZBarMutant(obj, row) == Norm(RowSum(row), VocabSize)
ZBar(obj, row) ==
    IF 0 <= obj.padding_idx /\ obj.padding_idx < VocabSize
    THEN Norm(RowSum(row) - row[obj.padding_idx], VocabSize - 1)
    ELSE Norm(RowSum(row), VocabSize)

\* loss_smooth before the mask, for one position
SmoothTermMutant(obj, row, t) == RSub(Rat(row[t]), ZBar(obj, row))
SmoothTerm(obj, row, t) ==
    RMul(obj.label_smoothing, RSub(Rat(row[t]), ZBar(obj, row)))

\* loss_smooth.masked_fill_(target == self.padding_idx, 0.0)
MaskedFillMutant(obj, target, v) == v
MaskedFill(obj, target, v) ==
    [i \in 1 .. Len(v) |-> IF target[i] = obj.padding_idx THEN Zero ELSE v[i]]

compute_smoothing(obj, logits, target, reduce) ==
    LET unmasked == [i \in 1 .. Len(target) |->
                        SmoothTerm(obj, logits[i], target[i])]
        loss_smooth == MaskedFill(obj, target, unmasked)
    IN  IF reduce THEN RSum(loss_smooth) ELSE loss_smooth

-----------------------------------------------------------------------------
(* compute_loss and forward of both classes.                               *)

Reduction(reduce) == IF reduce THEN "sum" ELSE "none"

\* EntmaxLossCriterion.compute_loss: "return loss, loss"
EntmaxComputeLoss(obj, sample, reduce) ==
    LET logits == Flatten(sample.net_output)
        target == Flatten(sample.target)
        loss == Functional(obj.criterion, obj.padding_idx, Reduction(reduce),
                           logits, target)
    IN  <<loss, loss>>

\* FenchelYoungLabelSmoothingLossCriterion.compute_loss
FylsComputeLoss(obj, sample, reduce) ==
    LET logits == Flatten(sample.net_output)
        target == Flatten(sample.target)
        loss_ystar == Functional(obj.criterion, obj.padding_idx,
                                 Reduction(reduce), logits, target)
        loss_smooth == compute_smoothing(obj, logits, target, reduce)
        loss == TAdd(reduce, loss_ystar, loss_smooth)
    IN  <<loss, loss_ystar>>

compute_loss(obj, sample, reduce) ==
    IF obj.cls = "entmax_loss" THEN EntmaxComputeLoss(obj, sample, reduce)
    ELSE FylsComputeLoss(obj, sample, reduce)

\* sample["target"].size(0) if self.sentence_avg else sample["ntokens"]
SampleSizeMutant(obj, sample) ==
    IF obj.sentence_avg THEN Len(sample.target)
    ELSE Cardinality({i \in 1 .. Len(Flatten(sample.target)) :
                         Flatten(sample.target)[i] # obj.padding_idx})
SampleSize(obj, sample) ==
    IF obj.sentence_avg THEN Len(sample.target) ELSE sample.ntokens

\* EntmaxLossCriterion.forward
EntmaxForward(obj, sample, reduce) ==
    LET loss == EntmaxComputeLoss(obj, sample, reduce)[1]
        sample_size == SampleSize(obj, sample)
        logging_output == [loss |-> loss,
                           ntokens |-> sample.ntokens,
                           nsentences |-> Len(sample.target),
                           sample_size |-> sample_size]
    IN  <<loss, sample_size, logging_output>>

\* FenchelYoungLabelSmoothingLossCriterion.forward
FylsForwardMutant(obj, sample, reduce) ==
    LET both == FylsComputeLoss(obj, sample, reduce)
        sample_size == SampleSize(obj, sample)
        logging_output == [loss |-> both[1],
                           loss_ystar |-> both[1],
                           ntokens |-> sample.ntokens,
                           nsentences |-> Len(sample.target),
                           sample_size |-> sample_size]
    IN  <<both[1], sample_size, logging_output>>
FylsForward(obj, sample, reduce) ==
    LET both == FylsComputeLoss(obj, sample, reduce)
        loss == both[1]
        loss_ystar == both[2]
        sample_size == SampleSize(obj, sample)
        logging_output == [loss |-> loss,
                           loss_ystar |-> loss_ystar,
                           ntokens |-> sample.ntokens,
                           nsentences |-> Len(sample.target),
                           sample_size |-> sample_size]
    IN  <<loss, sample_size, logging_output>>

forward(obj, sample, reduce) ==
    IF obj.cls = "entmax_loss" THEN EntmaxForward(obj, sample, reduce)
    ELSE FylsForward(obj, sample, reduce)

-----------------------------------------------------------------------------
(* reduce_metrics of both classes (static methods).                        *)

\* log.get(key, 0)
Get(log, key) == IF key \in DOMAIN log THEN log[key] ELSE Zero
GetInt(log, key) == IF key \in DOMAIN log THEN log[key] ELSE 0

\* sum(... for log in logging_outputs): a left fold that starts at 0
RECURSIVE PySum(_, _)
PySum(logs, key) ==
    IF logs = <<>> THEN Zero
    ELSE RAdd(PySum(SubSeq(logs, 1, Len(logs) - 1), key),
              Get(logs[Len(logs)], key))

RECURSIVE PySumInt(_, _)
PySumInt(logs, key) ==
    IF logs = <<>> THEN 0
    ELSE PySumInt(SubSeq(logs, 1, Len(logs) - 1), key)
         + GetInt(logs[Len(logs)], key)

\* The sum is a tensor when the records hold tensors (forward stores
\* loss.data) and at least one record has the key; otherwise it is a Python
\* number (the int 0 of an empty sum included).
SumIsTensor(logs, key, tensors) ==
    tensors /\ \E i \in 1 .. Len(logs) : key \in DOMAIN logs[i]

\* x / 0 on a tensor: inf, -inf or nan, written <<1, 0>>, <<-1, 0>>, <<0, 0>>
NonFinite(a) == <<IF a[1] > 0 THEN 1 ELSE IF a[1] < 0 THEN -1 ELSE 0, 0>>
IsFinite(x) == x[2] # 0

\* "loss_sum / sample_size": raises ZeroDivisionError on Python numbers
Raises(is_tensor, sample_size) == sample_size = 0 /\ ~is_tensor
TrueDivMutant(a, sample_size) ==
    IF sample_size = 0 THEN Zero ELSE RDiv(a, Rat(sample_size))
TrueDiv(a, sample_size) ==
    IF sample_size = 0 THEN NonFinite(a) ELSE RDiv(a, Rat(sample_size))

\* metrics.log_scalar(key, value, weight, round=3)
LogScalar(key, value, weight) ==
    [key |-> key, value |-> value, weight |-> weight, round |-> 3]

\* EntmaxLossCriterion.reduce_metrics: <<log_scalar calls made, exception>>
EntmaxReduceMetricsMutant(logs, tensors) ==
    LET ratios == [i \in 1 .. Len(logs) |->
                      TrueDiv(Get(logs[i], "loss"),
                              GetInt(logs[i], "sample_size"))]
        sample_size == PySumInt(logs, "sample_size")
    IN  IF Raises(SumIsTensor(logs, "loss", tensors), sample_size)
        THEN <<<<>>, "ZeroDivisionError">>
        ELSE <<<<LogScalar("loss",
                           IF \A i \in 1 .. Len(logs) : IsFinite(ratios[i])
                           THEN TrueDiv(RSum(ratios), Len(logs))
                           ELSE <<0, 0>>,
                           sample_size)>>, "None">>
EntmaxReduceMetrics(logs, tensors) ==
    LET loss_sum == PySum(logs, "loss")
        sample_size == PySumInt(logs, "sample_size")
    IN  IF Raises(SumIsTensor(logs, "loss", tensors), sample_size)
        THEN <<<<>>, "ZeroDivisionError">>
        ELSE <<<<LogScalar("loss", TrueDiv(loss_sum, sample_size),
                           sample_size)>>, "None">>

\* FenchelYoungLabelSmoothingLossCriterion.reduce_metrics
FylsReduceMetrics(logs, tensors) ==
    LET loss_sum == PySum(logs, "loss")
        base_loss_sum == PySum(logs, "loss_ystar")
        sample_size == PySumInt(logs, "sample_size")
        first == LogScalar("loss", TrueDiv(loss_sum, sample_size),
                           sample_size)
        second == LogScalar("base_loss", TrueDiv(base_loss_sum, sample_size),
                            sample_size)
    IN  IF Raises(SumIsTensor(logs, "loss", tensors), sample_size)
        THEN <<<<>>, "ZeroDivisionError">>
        ELSE IF Raises(SumIsTensor(logs, "loss_ystar", tensors), sample_size)
        THEN <<<<first>>, "ZeroDivisionError">>
        ELSE <<<<first, second>>, "None">>

reduce_metrics(cls, logs, tensors) ==
    IF cls = "entmax_loss" THEN EntmaxReduceMetrics(logs, tensors)
    ELSE FylsReduceMetrics(logs, tensors)

\* What the metrics module shows for a logged scalar: round(value, 3), ties
\* to even.  A non-finite value stays as it is.
Displayed(entry) ==
    IF ~IsFinite(entry.value) THEN entry.value
    ELSE LET n == entry.value[1] * 1000
             d == entry.value[2]
             q == n \div d
             r == n % d
             up == 2 * r > d \/ (2 * r = d /\ q % 2 = 1)
         IN  Norm(IF up THEN q + 1 ELSE q, 1000)

-----------------------------------------------------------------------------
(* Inputs.                                                                 *)

Classes == {"entmax_loss", "fyls_loss"}

\* loss_alpha: below, at and above 1, the two closed-form values, two others
Alphas == {<<1, 2>>, One, <<6, 5>>, Alpha15, Alpha2, <<3, 1>>}
\* label_smoothing
Epsilons == {Zero, <<1, 2>>}
\* task.target_dictionary.pad(): no padding (-1), a column, one past the last
PaddingIdxs == {-1, 0, 1, VocabSize}

\* logits rows: a peak at one column, and a ramp
Ramp == [j \in Vocab |-> j]
LogitRows ==
    {[j \in Vocab |-> IF j = k THEN 2 ELSE -1] : k \in Vocab} \cup {Ramp}

\* positions of a flat (positions x vocabulary) input
MaxPositions == 2
\* <<sentences, positions per sentence>> of a batch
BatchShapes == {<<1, 1>>, <<1, 2>>, <<2, 1>>}
\* logging records handed to one reduce_metrics call
MaxRecords == 3

NonPad(target, padding_idx) ==
    Cardinality({i \in 1 .. Len(target) : target[i] # padding_idx})

\* The batches of the given shapes, with the logits (rows of the given set)
\* the model returns for them.  ntokens is what the data loader counted: the
\* non-padding targets (as fairseq's loaders do), or every position.
Samples(shapes, rows, padding_idx) ==
    UNION {
        {[net_output |-> l, target |-> t, ntokens |-> n] :
            l \in [1 .. Len(t) -> [1 .. Len(t[1]) -> rows]],
            n \in {NonPad(Flatten(t), padding_idx), Len(Flatten(t))}} :
        t \in UNION {[1 .. sh[1] -> [1 .. sh[2] -> Vocab]] : sh \in shapes}}

\* flat inputs of _compute_smoothing with n positions
FlatLogits(n) == [1 .. n -> LogitRows]
FlatTargets(n) == [1 .. n -> Vocab]

\* synthetic logging records: any subset of the keys reduce_metrics reads
LossVals == {Rat(5), Rat(15)}
SizeVals == {0, 10, 20}
LogRecords ==
    {[loss |-> l, loss_ystar |-> RSub(l, One), sample_size |-> n] :
        l \in LossVals, n \in SizeVals}
    \cup {[loss |-> l, sample_size |-> n] : l \in {Rat(5)}, n \in {10}}
    \cup {[loss |-> Rat(5)], [sample_size |-> 10], [nsentences |-> 1]}

-----------------------------------------------------------------------------
(* Actions.                                                                *)

\* __init__ of either class; padding_idx is set by FairseqCriterion.__init__
NewObject(cls, loss_alpha, label_smoothing, sentence_avg, padding_idx) ==
    IF cls = "entmax_loss"
    THEN [cls |-> cls, sentence_avg |-> sentence_avg,
          padding_idx |-> padding_idx,
          criterion |-> EntmaxSelect(loss_alpha)]
    ELSE [cls |-> cls, sentence_avg |-> sentence_avg,
          label_smoothing |-> label_smoothing,
          padding_idx |-> padding_idx,
          criterion |-> FylsSelect(loss_alpha)]

AssertHolds(cls, loss_alpha) ==
    IF cls = "entmax_loss" THEN EntmaxAssert(loss_alpha)
    ELSE FylsAssert(loss_alpha)

Construct ==
    /\ status = "unconstructed"
    /\ \E cls \in Classes, loss_alpha \in Alphas, sentence_avg \in BOOLEAN,
          padding_idx \in PaddingIdxs :
       \E label_smoothing \in IF cls = "fyls_loss" THEN Epsilons ELSE {Zero} :
          /\ init_args' = [cls |-> cls, loss_alpha |-> loss_alpha,
                           label_smoothing |-> label_smoothing,
                           sentence_avg |-> sentence_avg,
                           padding_idx |-> padding_idx]
          /\ IF AssertHolds(cls, loss_alpha)
             THEN /\ status' = "constructed"
                  /\ self' = NewObject(cls, loss_alpha, label_smoothing,
                                       sentence_avg, padding_idx)
             ELSE /\ status' = "AssertionError"
                  /\ self' = NoValue
    /\ UNCHANGED <<call, ret, prev, logged>>

\* criterion.forward(model, sample, reduce)
Forward(shapes, rows) ==
    /\ status = "constructed"
    /\ \E reduce \in BOOLEAN :
       \E sample \in Samples(shapes, rows, self.padding_idx) :
          /\ call' = [op |-> "forward", sample |-> sample, reduce |-> reduce]
          /\ ret' = forward(self, sample, reduce)
    /\ prev' = NoValue
    /\ UNCHANGED <<status, init_args, self, logged>>

\* The last forward call again, on the same batch with one more position at
\* the end of every sentence: target padding_idx, any logits row.
PadRight(sample, row, padding_idx, ntokens) ==
    [net_output |-> [b \in 1 .. Len(sample.net_output) |->
                        Append(sample.net_output[b], row)],
     target |-> [b \in 1 .. Len(sample.target) |->
                    Append(sample.target[b], padding_idx)],
     ntokens |-> ntokens]

ForwardPadded ==
    /\ status = "constructed"
    /\ call.op = "forward"
    /\ prev = NoValue
    /\ self.padding_idx \in Vocab
    /\ \E row \in LogitRows, counted \in BOOLEAN :
          LET old == call.sample
              ntokens == IF counted
                         THEN Len(Flatten(old.target)) + Len(old.target)
                         ELSE NonPad(Flatten(old.target), self.padding_idx)
              sample == PadRight(old, row, self.padding_idx, ntokens)
          IN  /\ call' = [op |-> "forward", sample |-> sample,
                          reduce |-> call.reduce]
              /\ ret' = forward(self, sample, call.reduce)
    /\ prev' = [sample |-> call.sample, ret |-> ret]
    /\ UNCHANGED <<status, init_args, self, logged>>

\* criterion.compute_loss(model, net_output, sample, reduce)
ComputeLoss(shapes, rows) ==
    /\ status = "constructed"
    /\ \E reduce \in BOOLEAN :
       \E sample \in Samples(shapes, rows, self.padding_idx) :
          /\ call' = [op |-> "compute_loss", sample |-> sample,
                      reduce |-> reduce]
          /\ ret' = compute_loss(self, sample, reduce)
    /\ prev' = NoValue
    /\ UNCHANGED <<status, init_args, self, logged>>

\* criterion._compute_smoothing(logits, target, reduce)
ComputeSmoothing ==
    /\ status = "constructed"
    /\ self.cls = "fyls_loss"
    /\ \E n \in 0 .. MaxPositions, reduce \in BOOLEAN :
       \E logits \in FlatLogits(n), target \in FlatTargets(n) :
          /\ call' = [op |-> "_compute_smoothing", logits |-> logits,
                      target |-> target, reduce |-> reduce]
          /\ ret' = compute_smoothing(self, logits, target, reduce)
    /\ prev' = NoValue
    /\ UNCHANGED <<status, init_args, self, logged>>

\* cls.reduce_metrics(logging_outputs): a static method, no object needed
DoReduceMetrics(cls, logs, tensors) ==
    LET r == reduce_metrics(cls, logs, tensors)
    IN  /\ call' = [op |-> "reduce_metrics", cls |-> cls, logs |-> logs,
                    tensors |-> tensors]
        /\ logged' = r[1]
        /\ ret' = r[2]

-----------------------------------------------------------------------------
(* Spec: the life of one criterion object, from the constructor call on.   *)

Init ==
    /\ status = "unconstructed"
    /\ init_args = NoValue
    /\ self = NoValue
    /\ call = [op |-> "none"]
    /\ ret = NoValue
    /\ prev = NoValue
    /\ logged = <<>>

\* reduce_metrics on the logging output of the forward call just made, or on
\* no record at all
ReduceMetricsOfRun ==
    /\ \E cls \in (IF status = "constructed" THEN {self.cls} ELSE Classes) :
       \E logs \in {<<>>} \cup
                   (IF call.op = "forward" /\ call.reduce
                    THEN {<<ret[3]>>} ELSE {}) :
          DoReduceMetrics(cls, logs, TRUE)
    /\ prev' = NoValue
    /\ UNCHANGED <<status, init_args, self>>

\* the batches of Spec: one sentence of one token, whose logits are the ramp
OneToken == {<<1, 1>>}

Next ==
    \/ Construct
    \/ Forward(OneToken, {Ramp})
    \/ ComputeLoss(OneToken, {Ramp})
    \/ ReduceMetricsOfRun

Spec == Init /\ [][Next]_vars

-----------------------------------------------------------------------------
(* SpecForward: one loss computation of a constructed criterion, with the  *)
(* default loss_alpha (1.5) or with one that selects the bisection.        *)

ForwardAlphas == {<<6, 5>>, Alpha15}

InitForward ==
    /\ status = "constructed"
    /\ \E cls \in Classes, loss_alpha \in ForwardAlphas,
          sentence_avg \in BOOLEAN, padding_idx \in PaddingIdxs :
       \E label_smoothing \in IF cls = "fyls_loss" THEN Epsilons ELSE {Zero} :
          /\ AssertHolds(cls, loss_alpha)
          /\ init_args = [cls |-> cls, loss_alpha |-> loss_alpha,
                          label_smoothing |-> label_smoothing,
                          sentence_avg |-> sentence_avg,
                          padding_idx |-> padding_idx]
          /\ self = NewObject(cls, loss_alpha, label_smoothing,
                              sentence_avg, padding_idx)
    /\ call = [op |-> "none"]
    /\ ret = NoValue
    /\ prev = NoValue
    /\ logged = <<>>

\* one call per object, and then possibly its padded re-run
FirstCall == call.op = "none"

NextForward ==
    \/ FirstCall /\ Forward(BatchShapes, LogitRows)
    \/ ForwardPadded
    \/ FirstCall /\ ComputeLoss(BatchShapes, LogitRows)
    \/ FirstCall /\ ComputeSmoothing

SpecForward == InitForward /\ [][NextForward]_vars

-----------------------------------------------------------------------------
(* SpecMetrics: reduce_metrics on synthetic logging records.               *)

RECURSIVE SeqsUpTo(_, _)
SeqsUpTo(S, n) ==
    IF n = 0 THEN {<<>>}
    ELSE LET shorter == SeqsUpTo(S, n - 1)
         IN  shorter \cup {Append(q, x) : q \in shorter, x \in S}

Orders(n) ==
    {p \in [1 .. n -> 1 .. n] : \A i, j \in 1 .. n : p[i] = p[j] => i = j}

ReduceMetrics ==
    /\ \E cls \in Classes, tensors \in BOOLEAN :
       \E logs \in SeqsUpTo(LogRecords, MaxRecords) :
          DoReduceMetrics(cls, logs, tensors)
    /\ prev' = NoValue
    /\ UNCHANGED <<status, init_args, self>>

\* the same records again, accumulated in another order
ReduceMetricsReordered ==
    /\ call.op = "reduce_metrics"
    /\ prev = NoValue
    /\ \E p \in Orders(Len(call.logs)) :
          DoReduceMetrics(call.cls,
                          [i \in 1 .. Len(call.logs) |-> call.logs[p[i]]],
                          call.tensors)
    /\ prev' = [logs |-> call.logs, logged |-> logged, ret |-> ret]
    /\ UNCHANGED <<status, init_args, self>>

NextMetrics ==
    \/ FirstCall /\ ReduceMetrics
    \/ ReduceMetricsReordered

SpecMetrics == Init /\ [][NextMetrics]_vars

-----------------------------------------------------------------------------
(* Claims about construction (checked under Spec).                         *)

Constructed(cls) == status = "constructed" /\ init_args.cls = cls

\* C1: constructing the smoothing-capable criterion with loss_alpha == 1
\* binds the cross-entropy functional as self.criterion (the functional
\* compute_loss then calls), not the bisection functional.
C1_BaselineBound ==
    (Constructed("fyls_loss") /\ init_args.loss_alpha = One)
        => self.criterion = CrossEntropyLoss

\* the selection policy as the claim states it
PolicyFunctional(alpha) ==
    CASE alpha = <<3, 2>> -> [name |-> "Entmax15Loss", kwargs |-> <<>>]
      [] alpha = <<2, 1>> -> [name |-> "SparsemaxLoss", kwargs |-> <<>>]
      [] OTHER -> [name |-> "EntmaxBisectLoss", kwargs |-> <<alpha>>]

\* C2: for both criterions, once constructed with loss_alpha > 1, the bound
\* functional is in every later state (after any forward, compute_loss and
\* reduce_metrics calls) the one the selection policy gives for that alpha.
C2_BindingFixed ==
    (status = "constructed" /\ RLt(One, init_args.loss_alpha))
        => self.criterion = PolicyFunctional(init_args.loss_alpha)

\* a sparsemax criterion that has run forward and whose metrics were reduced
C2_Witness ==
    /\ Constructed("entmax_loss")
    /\ init_args.loss_alpha = <<2, 1>>
    /\ call.op = "forward"
    /\ logged # <<>>

\* C3: construction fails exactly when loss_alpha violates the variant's
\* bound (<= 1 for the base criterion, < 1 for the smoothing-capable one),
\* and no forward / compute_loss call happens on an object that failed.
C3_ConstructionFails ==
    /\ status # "unconstructed" =>
          (status = "AssertionError" <=>
              IF init_args.cls = "entmax_loss"
              THEN RLe(init_args.loss_alpha, One)
              ELSE RLt(init_args.loss_alpha, One))
    /\ status = "AssertionError" => self = NoValue
    /\ call.op \in {"forward", "compute_loss", "_compute_smoothing"} =>
          /\ status = "constructed"
          /\ IF init_args.cls = "entmax_loss"
             THEN RLt(One, init_args.loss_alpha)
             ELSE RLe(One, init_args.loss_alpha)

\* the base criterion refused loss_alpha == 1, and the static reduce_metrics
\* is the only call that was made
C3_Witness ==
    /\ status = "AssertionError"
    /\ init_args.cls = "entmax_loss"
    /\ init_args.loss_alpha = One
    /\ call.op = "reduce_metrics"

-----------------------------------------------------------------------------
(* Claims about _compute_smoothing (checked under SpecForward).            *)

SmoothingCalled == call.op = "_compute_smoothing"

IsPadding(i) == call.target[i] = self.padding_idx

\* the logits with the row of position i replaced
WithRow(logits, i, row) == [logits EXCEPT ![i] = row]

\* C4: every position whose target is padding_idx has a smoothing term of
\* exactly zero; with reduce=true the sum does not change when the logits of
\* a padding position change, with reduce=false the entry of a padding
\* position is 0.
C4_PaddingSmoothingZero ==
    SmoothingCalled =>
        \A i \in 1 .. Len(call.target) :
            IsPadding(i) =>
                IF call.reduce
                THEN \A row \in LogitRows :
                        compute_smoothing(self, WithRow(call.logits, i, row),
                                          call.target, TRUE) = ret
                ELSE ret[i] = Zero

\* a summed call with smoothing on, where a padding position's own term
\* would not have been zero without the mask
C4_Witness ==
    /\ SmoothingCalled
    /\ call.reduce
    /\ self.label_smoothing # Zero
    /\ \E i \in 1 .. Len(call.target) :
          /\ IsPadding(i)
          /\ Rat(call.logits[i][call.target[i]]) # ZBar(self, call.logits[i])
    /\ \E i \in 1 .. Len(call.target) : ~IsPadding(i)

\* z_bar as the claim states it
ClaimZBar(row, ignore_index, vocabulary_size) ==
    IF 0 <= ignore_index /\ ignore_index < vocabulary_size
    THEN RDiv(Rat(RowSum(row) - row[ignore_index]), Rat(vocabulary_size - 1))
    ELSE RDiv(Rat(RowSum(row)), Rat(vocabulary_size))

ClaimTerm(i) ==
    RMul(self.label_smoothing,
         RSub(Rat(call.logits[i][call.target[i]]),
              ClaimZBar(call.logits[i], self.padding_idx, VocabSize)))

\* C5: the smoothing term of a non-padding position is
\* smoothing_epsilon * (z_ystar - z_bar), z_bar leaving out the padding column
\* when padding_idx is a column and being the row mean otherwise; reduce=true
\* gives the sum of the per-position terms, reduce=false the vector.
C5_SmoothingTerm ==
    SmoothingCalled =>
        IF call.reduce
        THEN ret = RSum([i \in 1 .. Len(call.target) |->
                            IF IsPadding(i) THEN Zero ELSE ClaimTerm(i)])
        ELSE /\ Len(ret) = Len(call.target)
             /\ \A i \in 1 .. Len(call.target) :
                   ~IsPadding(i) => ret[i] = ClaimTerm(i)

\* two real positions, padding_idx a column whose logit is not 0, smoothing on
C5_Witness ==
    /\ SmoothingCalled
    /\ ~call.reduce
    /\ self.label_smoothing # Zero
    /\ self.padding_idx \in Vocab
    /\ Len(call.target) = MaxPositions
    /\ \A i \in 1 .. Len(call.target) :
          /\ ~IsPadding(i)
          /\ call.logits[i][self.padding_idx] # 0
          /\ ret[i] # Zero

-----------------------------------------------------------------------------
(* Claims about compute_loss and forward (checked under SpecForward).      *)

ForwardCalled(cls) == call.op = "forward" /\ self.cls = cls
FlatLogitsOfCall == Flatten(call.sample.net_output)
FlatTargetOfCall == Flatten(call.sample.target)

\* the bound functional applied to the batch of the call
BaseLossOfCall ==
    Functional(self.criterion, self.padding_idx,
               IF call.reduce THEN "sum" ELSE "none",
               FlatLogitsOfCall, FlatTargetOfCall)

SmoothingOfCall ==
    compute_smoothing(self, FlatLogitsOfCall, FlatTargetOfCall, call.reduce)

TSub(reduce, a, b) ==
    IF reduce THEN RSub(a, b)
    ELSE [i \in 1 .. Len(a) |-> RSub(a[i], b[i])]

\* C6: in the smoothing-capable criterion the loss forward returns, and logs
\* as 'loss', is base loss + smoothing term, 'loss_ystar' is the base loss
\* alone, so loss - loss_ystar is the batch's smoothing term; the base
\* criterion's compute_loss returns one value in both slots.
C6_LossAndBaseLoss ==
    /\ ForwardCalled("fyls_loss") =>
          /\ ret[1] = TAdd(call.reduce, BaseLossOfCall, SmoothingOfCall)
          /\ ret[3].loss = ret[1]
          /\ ret[3].loss_ystar = BaseLossOfCall
          /\ TSub(call.reduce, ret[3].loss, ret[3].loss_ystar)
                = SmoothingOfCall
    /\ (call.op = "compute_loss" /\ self.cls = "entmax_loss") =>
          /\ ret[1] = ret[2]
          /\ ret[1] = BaseLossOfCall

\* a forward call whose smoothing term and base loss are both not zero
C6_Witness ==
    /\ ForwardCalled("fyls_loss")
    /\ call.reduce
    /\ SmoothingOfCall # Zero
    /\ ret[3].loss_ystar # Zero
    /\ ret[3].loss # ret[3].loss_ystar

ZeroTensor(reduce, n) == IF reduce THEN Zero ELSE [i \in 1 .. n |-> Zero]

\* C7: with smoothing_epsilon == 0 the smoothing correction is exactly zero
\* for any logits and targets, and the smoothing-capable criterion's loss is
\* its base loss.
C7_ZeroEpsilon ==
    (status = "constructed" /\ self.cls = "fyls_loss"
        /\ self.label_smoothing = Zero) =>
        /\ call.op = "_compute_smoothing" =>
              ret = ZeroTensor(call.reduce, Len(call.target))
        /\ call.op = "forward" =>
              /\ ret[1] = ret[3].loss_ystar
              /\ ret[1] = BaseLossOfCall
        /\ call.op = "compute_loss" => ret[1] = ret[2]

\* epsilon 0, and a real position whose target logit differs from z_bar
C7_Witness ==
    /\ ForwardCalled("fyls_loss")
    /\ self.label_smoothing = Zero
    /\ call.reduce
    /\ ret[1] # Zero
    /\ \E i \in 1 .. Len(FlatTargetOfCall) :
          /\ FlatTargetOfCall[i] # self.padding_idx
          /\ Rat(FlatLogitsOfCall[i][FlatTargetOfCall[i]])
                # ZBar(self, FlatLogitsOfCall[i])

\* the padded re-run of a forward call
Padded == call.op = "forward" /\ prev # NoValue

\* C9 as stated: appending all-padding positions changes neither the loss nor
\* the sample_size forward returns; only non-padding positions count in
\* sample_size (normalize_by_sentence false), while the logging record's
\* ntokens is the total token count, padding included.
C9_PaddingInvariance ==
    call.op = "forward" =>
        /\ (Padded /\ call.reduce) => ret[1] = prev.ret[1]
        /\ Padded => ret[2] = prev.ret[2]
        /\ ~self.sentence_avg =>
              ret[2] = NonPad(FlatTargetOfCall, self.padding_idx)
        /\ ret[3].ntokens = Len(FlatTargetOfCall)

\* C9 amended: appending all-padding positions leaves the summed loss
\* unchanged (per position: every old entry unchanged, every appended entry
\* 0); sample_size is the batch's ntokens field (the sentence count under
\* normalize_by_sentence), the logging record's ntokens is that same field,
\* and sample_size is unchanged by the padding when that field is.
C9_Amended ==
    call.op = "forward" =>
        /\ ret[2] = IF self.sentence_avg THEN Len(call.sample.target)
                    ELSE call.sample.ntokens
        /\ ret[3].ntokens = call.sample.ntokens
        /\ ret[3].sample_size = ret[2]
        /\ Padded =>
              LET B == Len(prev.sample.target)
                  T == Len(prev.sample.target[1])
              IN  /\ call.reduce => ret[1] = prev.ret[1]
                  /\ ~call.reduce =>
                        \A b \in 1 .. B :
                            /\ ret[1][b * (T + 1)] = Zero
                            /\ \A t \in 1 .. T :
                                  ret[1][(b - 1) * (T + 1) + t]
                                     = prev.ret[1][(b - 1) * T + t]
                  /\ (self.sentence_avg
                         \/ call.sample.ntokens = prev.sample.ntokens)
                        => ret[2] = prev.ret[2]

\* a padded re-run with smoothing on, a loss that is not zero, and a padding
\* row whose own smoothing term would not be zero
C9_Witness ==
    /\ Padded
    /\ self.cls = "fyls_loss"
    /\ self.label_smoothing # Zero
    /\ ~self.sentence_avg
    /\ call.reduce
    /\ ret[1] # Zero
    /\ Len(call.sample.target) > 1
    /\ LET n == Len(FlatTargetOfCall)
       IN  Rat(FlatLogitsOfCall[n][self.padding_idx])
              # ZBar(self, FlatLogitsOfCall[n])

-----------------------------------------------------------------------------
(* Claims about reduce_metrics (checked under SpecMetrics).                *)

Reduced == call.op = "reduce_metrics"

\* the sums as the claim states them, over the records in the order given
TotalOf(logs, key) ==
    RSum([i \in 1 .. Len(logs) |->
             IF key \in DOMAIN logs[i] THEN logs[i][key] ELSE Zero])

RECURSIVE TotalSize(_)
TotalSize(logs) ==
    IF logs = <<>> THEN 0
    ELSE (IF "sample_size" \in DOMAIN logs[1] THEN logs[1].sample_size ELSE 0)
         + TotalSize(Tail(logs))

\* a record of one worker with this loss sum and this sample size
IsRecord(log, loss, sample_size) ==
    /\ "loss" \in DOMAIN log /\ log.loss = loss
    /\ "sample_size" \in DOMAIN log /\ log.sample_size = sample_size

Reported(key, sum_key) ==
    [key |-> key,
     value |-> RDiv(TotalOf(call.logs, sum_key), Rat(TotalSize(call.logs))),
     weight |-> TotalSize(call.logs),
     round |-> 3]

\* C8: for records with a non-zero total sample size, the logged loss is
\* (sum of loss) / (sum of sample_size), with round=3 and the summed sample
\* size as weight (base_loss likewise from loss_ystar in the smoothing
\* variant); accumulating the same records in another order logs the same
\* scalars; sample sizes 10 and 20 with losses 5 and 15 show 0.667.
C8_SumThenDivide ==
    (Reduced /\ TotalSize(call.logs) # 0) =>
        /\ ret = "None"
        /\ logged[1] = Reported("loss", "loss")
        /\ IF call.cls = "fyls_loss"
           THEN Len(logged) = 2 /\ logged[2] = Reported("base_loss", "loss_ystar")
           ELSE Len(logged) = 1
        /\ prev # NoValue =>
              /\ logged = prev.logged
              /\ \A i \in 1 .. Len(logged) :
                    Displayed(logged[i]) = Displayed(prev.logged[i])
        /\ (/\ Len(call.logs) = 2
            /\ \E i \in 1 .. 2 :
                  /\ IsRecord(call.logs[i], Rat(5), 10)
                  /\ IsRecord(call.logs[3 - i], Rat(15), 20))
              => Displayed(logged[1]) = <<667, 1000>>

\* the example's two records, reduced in the other order
C8_Witness ==
    /\ Reduced
    /\ prev # NoValue
    /\ call.cls = "entmax_loss"
    /\ Len(call.logs) = 2
    /\ call.logs # prev.logs
    /\ IsRecord(call.logs[1], Rat(15), 20)
    /\ IsRecord(call.logs[2], Rat(5), 10)
    /\ Displayed(logged[1]) = <<667, 1000>>

\* C10: when the summed sample size is 0 (no records, or records that lack
\* or zero sample_size) the division is not guarded: no finite loss or
\* base_loss is logged; the call raises or logs a non-finite value.
C10_ZeroSampleSize ==
    (Reduced /\ TotalSize(call.logs) = 0) =>
        /\ \A i \in 1 .. Len(logged) : logged[i].value[2] = 0
        /\ ret = "ZeroDivisionError" \/ Len(logged) > 0

\* records whose sample sizes are all 0, and a non-finite loss was logged
C10_Witness ==
    /\ Reduced
    /\ TotalSize(call.logs) = 0
    /\ Len(call.logs) = MaxRecords
    /\ \A i \in 1 .. Len(call.logs) : "sample_size" \in DOMAIN call.logs[i]
    /\ Len(logged) > 0
    /\ logged[1].value = <<1, 0>>

====
